---- MODULE Spec2Model ----
(***************************************************************************)
(* Memory Wall controller (memoryWall.controller.js): the six request      *)
(* handlers createMemory, getAllMemories, getMemoryById, updateMemory,     *)
(* deleteMemory and getMemoryStats, the multer upload configuration in     *)
(* front of createMemory, and the environment they talk to (the profile    *)
(* lookup and memoryWallService).  One request is in flight at a time;     *)
(* a handler is split at its await points.                                 *)
(***************************************************************************)
EXTENDS Integers, Sequences, FiniteSets, TLC

VARIABLES
    env,        \* process-wide configuration: MAX_IMAGE_SIZE, time zone
    req,        \* the request being handled (handler name and inputs)
    pc,         \* handler position: start, awaitProfile, awaitService, returned, rejected
    sent,       \* responses written to res, in order
    calls,      \* calls made to memoryWallService for this request
    lookups,    \* profile lookups made for this request
    profile,    \* what the profile lookup produced (None before it settles)
    outcome,    \* what the awaited service call produced (None before it settles)
    prev        \* the preceding request's failure and responses, kept for comparison

vars == <<env, req, pc, sent, calls, lookups, profile, outcome, prev>>

None == [t |-> "none"]

(***************************************************************************)
(* JavaScript values that reach the handlers.                              *)
(***************************************************************************)
Undefined == [t |-> "undefined"]
Null == [t |-> "null"]
Str(s) == [t |-> "string", v |-> s]
Num(n) == [t |-> "number", v |-> n]

\* ToBoolean, as used by !x and x || y
Truthy(x) ==
    CASE x.t = "undefined" -> FALSE
      [] x.t = "null" -> FALSE
      [] x.t = "string" -> x.v # ""
      [] x.t = "number" -> x.v # 0
      [] x.t = "nan" -> FALSE
      [] OTHER -> TRUE

\* a || b
Or(a, b) == IF Truthy(a) THEN a ELSE b

(***************************************************************************)
(* Strings.                                                                *)
(***************************************************************************)
RECURSIVE Repeat(_, _)
Repeat(s, n) ==
    IF n = 0 THEN ""
    ELSE IF n % 2 = 0 THEN LET half == Repeat(s, n \div 2) IN half \o half
    ELSE s \o Repeat(s, n - 1)

CharAt(s, i) == SubSeq(s, i, i)

IsSpace(c) == c \in {" ", "\t", "\n"}

RECURSIVE TrimStart(_)
TrimStart(s) ==
    IF Len(s) > 0 /\ IsSpace(CharAt(s, 1))
    THEN TrimStart(SubSeq(s, 2, Len(s)))
    ELSE s

RECURSIVE TrimEnd(_)
TrimEnd(s) ==
    IF Len(s) > 0 /\ IsSpace(CharAt(s, Len(s)))
    THEN TrimEnd(SubSeq(s, 1, Len(s) - 1))
    ELSE s

\* String.prototype.trim
Trim(s) == TrimEnd(TrimStart(s))

\* String.prototype.includes
Includes(s, sub) ==
    \E i \in 1..(Len(s) - Len(sub) + 1) : SubSeq(s, i, i + Len(sub) - 1) = sub

LowerChar(c) ==
    CASE c = "A" -> "a" [] c = "D" -> "d" [] c = "F" -> "f" [] c = "G" -> "g"
      [] c = "J" -> "j" [] c = "N" -> "n" [] c = "P" -> "p"
      [] OTHER -> c

RECURSIVE ToLowerCase(_)
ToLowerCase(s) ==
    IF s = "" THEN "" ELSE LowerChar(CharAt(s, 1)) \o ToLowerCase(SubSeq(s, 2, Len(s)))

\* path.extname: from the last "." on, "" when there is none or it leads the name
RECURSIVE LastDot(_, _)
LastDot(s, i) ==
    IF i = 0 THEN 0 ELSE IF CharAt(s, i) = "." THEN i ELSE LastDot(s, i - 1)

ExtName(s) ==
    LET d == LastDot(s, Len(s)) IN IF d <= 1 THEN "" ELSE SubSeq(s, d, Len(s))

(***************************************************************************)
(* Numbers read from text.                                                 *)
(***************************************************************************)
NaN == [t |-> "nan"]

IsDigit(c) == c \in {"0", "1", "2", "3", "4", "5", "6", "7", "8", "9"}

DigitVal(c) ==
    CASE c = "0" -> 0 [] c = "1" -> 1 [] c = "2" -> 2 [] c = "3" -> 3
      [] c = "4" -> 4 [] c = "5" -> 5 [] c = "6" -> 6 [] c = "7" -> 7
      [] c = "8" -> 8 [] c = "9" -> 9

\* value of the leading run of digits of s, continuing from acc
RECURSIVE LeadingDigits(_, _)
LeadingDigits(s, acc) ==
    IF Len(s) > 0 /\ IsDigit(CharAt(s, 1))
    THEN LeadingDigits(SubSeq(s, 2, Len(s)), 10 * acc + DigitVal(CharAt(s, 1)))
    ELSE acc

\* parseInt(x): NaN unless the (trimmed) text starts with a digit
ParseInt(x) ==
    IF x.t # "string" THEN NaN
    ELSE LET s == TrimStart(x.v) IN
         IF Len(s) > 0 /\ IsDigit(CharAt(s, 1)) THEN Num(LeadingDigits(s, 0)) ELSE NaN

\* the two-digit number at s[i..i+1], or -1
TwoDigits(s, i) ==
    IF IsDigit(CharAt(s, i)) /\ IsDigit(CharAt(s, i + 1))
    THEN 10 * DigitVal(CharAt(s, i)) + DigitVal(CharAt(s, i + 1))
    ELSE -1

(***************************************************************************)
(* Dates.  A Date is its time value in milliseconds since the epoch, or    *)
(* NaN (an Invalid Date).  off is the server's local time minus UTC.       *)
(***************************************************************************)
DayMs == 24 * 60 * 60 * 1000
HourMs == 60 * 60 * 1000
MinuteMs == 60 * 1000

InvalidDate == [nan |-> TRUE, ms |-> 0]
DateOf(ms) == [nan |-> FALSE, ms |-> ms]

\* new Date(string) for the ISO forms YYYY-MM-DD (UTC midnight),
\* YYYY-MM-DDTHH:mm (local time) and YYYY-MM-DDTHH:mmZ (UTC), within January 1970
ParseDateString(s, off) ==
    IF Len(s) \notin {10, 16, 17} \/ SubSeq(s, 1, 8) # "1970-01-" THEN InvalidDate
    ELSE
      LET dd == TwoDigits(s, 9) IN
      IF dd < 1 \/ dd > 31 THEN InvalidDate
      ELSE IF Len(s) = 10 THEN DateOf((dd - 1) * DayMs)
      ELSE
        LET hh == TwoDigits(s, 12)
            mm == TwoDigits(s, 15)
        IN IF CharAt(s, 11) # "T" \/ CharAt(s, 14) # ":" \/ hh < 0 \/ hh > 23 \/ mm < 0 \/ mm > 59
           THEN InvalidDate
           ELSE IF Len(s) = 16
                THEN DateOf((dd - 1) * DayMs + hh * HourMs + mm * MinuteMs - off)
                ELSE IF CharAt(s, 17) = "Z"
                     THEN DateOf((dd - 1) * DayMs + hh * HourMs + mm * MinuteMs)
                     ELSE InvalidDate

\* new Date(x)
NewDate(x, off) ==
    CASE x.t = "string" -> ParseDateString(x.v, off)
      [] x.t = "number" -> DateOf(x.v)
      [] x.t = "null" -> DateOf(0)
      [] OTHER -> InvalidDate

\* today = new Date(); today.setHours(23, 59, 59, 999)
EndOfTodayShifted(now, off) ==
    DateOf(((now + off) \div DayMs) * DayMs - off)

EndOfToday(now, off) ==
    DateOf(((now + off) \div DayMs) * DayMs + 23 * HourMs + 59 * MinuteMs + 59 * 1000 + 999 - off)

\* a > b on Dates (false when either is invalid)
DateGreater(a, b) == ~a.nan /\ ~b.nan /\ a.ms > b.ms

(***************************************************************************)
(* Upload configuration (multer).                                          *)
(***************************************************************************)
DefaultMaxImageSize == 10485760
MaxTitleLength == 200

allowedImageTypes == {"jpg", "jpeg", "png", "gif", "webp", "heic", "heif"}
allowedImageTypesJoined == "jpg, jpeg, png, gif, webp, heic, heif"

\* fileFilter: TRUE when the file is accepted
fileFilter(originalname) ==
    LET fileExtension == LET e == ToLowerCase(ExtName(originalname))
                         IN SubSeq(e, 2, Len(e))
    IN fileExtension \in allowedImageTypes

\* limits.fileSize: parseInt(process.env.MAX_IMAGE_SIZE) || 10485760
fileSizeLimit(maxImageSize) ==
    Or(ParseInt(maxImageSize), Num(DefaultMaxImageSize)).v

MulterError(code, message) == [multer |-> TRUE, code |-> code, message |-> message]
PlainError(message) == [multer |-> FALSE, code |-> "", message |-> message]

\* upload.single('photo'): the error handed to the callback and req.file
uploadMiddleware(photo, maxImageSize) ==
    IF photo = None THEN [err |-> None, file |-> None]
    ELSE IF photo.field # "photo"
    THEN [err |-> MulterError("LIMIT_UNEXPECTED_FILE", "Unexpected field"), file |-> None]
    ELSE IF ~fileFilter(photo.originalname)
    THEN [err |-> PlainError("File type not allowed. Allowed image types: "
                              \o allowedImageTypesJoined), file |-> None]
    ELSE IF photo.size > fileSizeLimit(maxImageSize)
    THEN [err |-> MulterError("LIMIT_FILE_SIZE", "File too large"), file |-> None]
    ELSE [err |-> None, file |-> photo]

(***************************************************************************)
(* Response helpers (utils/response.js).                                   *)
(***************************************************************************)
errorResponse(message, status) ==
    [status |-> status, body |-> [success |-> FALSE, message |-> message]]

notFoundResponse(message) ==
    [status |-> 404, body |-> [success |-> FALSE, message |-> message]]

successResponse(data, message, status) ==
    [status |-> status, body |-> [success |-> TRUE, message |-> message, data |-> data]]

(***************************************************************************)
(* What the synchronous stretch of a handler ends in: a response, an       *)
(* exception thrown inside the try block, the profile lookup, or a call of *)
(* memoryWallService.                                                      *)
(***************************************************************************)
Respond(r) == [kind |-> "respond", res |-> r]
Throw(message) == [kind |-> "throw", error |-> [message |-> Str(message)]]
Lookup == [kind |-> "lookup"]
Call(c) == [kind |-> "call", call |-> c]

\* x.trim() on something that has no trim method
TrimTypeError(x) ==
    IF x.t = "null" THEN "Cannot read properties of null (reading 'trim')"
    ELSE IF x.t = "undefined" THEN "Cannot read properties of undefined (reading 'trim')"
    ELSE "title.trim is not a function"

(***************************************************************************)
(* createMemory                                                            *)
(***************************************************************************)
\* memoryWallService.createMemory(memoryData, req.file, req.user.user_id, collegeId)
createServiceCall(r, file, collegeId) ==
    Call([fn |-> "createMemory",
          memoryData |-> [title |-> Trim(r.body.title.v),
                          date |-> r.body.date,
                          description |-> IF Truthy(r.body.description)
                                          THEN Str(Trim(r.body.description.v))
                                          ELSE Null],
          file |-> file,
          userId |-> r.user.user_id,
          collegeId |-> collegeId])

\* a block of checks that found nothing wrong
Pass == [kind |-> "pass"]

\* "Handle multer errors" and the req.file check
createUploadChecks(up) ==
    LET err == up.err IN
    IF err # None /\ err.multer
    THEN IF err.code = "LIMIT_FILE_SIZE"
         THEN Respond(errorResponse("Photo size exceeds the limit (10MB)", 400))
         ELSE Respond(errorResponse("Photo upload error: " \o err.message, 400))
    ELSE IF err # None
    THEN Respond(errorResponse(err.message, 400))
    ELSE IF up.file = None
    THEN Respond(errorResponse("Photo is required. Please choose a photo.", 400))
    ELSE Pass

\* the title checks of createMemory
createTitleChecks(title) ==
    IF ~Truthy(title)
    THEN Respond(errorResponse("Title is required", 400))
    ELSE IF title.t # "string"
    THEN Throw(TrimTypeError(title))
    ELSE IF Trim(title.v) = ""
    THEN Respond(errorResponse("Title is required", 400))
    ELSE IF Len(Trim(title.v)) > MaxTitleLength
    THEN Respond(errorResponse("Title must not exceed 200 characters", 400))
    ELSE Pass

createDateChecksFormatFirst(date, now, off) ==
    LET memoryDate == NewDate(date, off)
        today == EndOfToday(now, off)
    IN
    IF memoryDate.nan
    THEN Respond(errorResponse("Invalid date format", 400))
    ELSE IF ~Truthy(date)
    THEN Respond(errorResponse("Date is required", 400))
    ELSE IF DateGreater(memoryDate, today)
    THEN Respond(errorResponse("Memory date cannot be in the future", 400))
    ELSE Pass

\* the date checks of createMemory
createDateChecks(date, now, off) ==
    LET memoryDate == NewDate(date, off)
        today == EndOfToday(now, off)
    IN
    IF ~Truthy(date)
    THEN Respond(errorResponse("Date is required", 400))
    ELSE IF memoryDate.nan
    THEN Respond(errorResponse("Invalid date format", 400))
    ELSE IF DateGreater(memoryDate, today)
    THEN Respond(errorResponse("Memory date cannot be in the future", 400))
    ELSE Pass

sessionCollegeIdTenantFirst(r) == Or(r.tenant, r.user.college_id)

\* let collegeId = req.user.college_id || req.tenant
sessionCollegeId(r) == Or(r.user.college_id, r.tenant)

\* the upload callback up to its first await
createMemoryStart(r, e) ==
    LET up == uploadMiddleware(r.photo, e.maxImageSize)
        uploadChecks == createUploadChecks(up)
        titleChecks == createTitleChecks(r.body.title)
        dateChecks == createDateChecks(r.body.date, r.now, e.tzOffset)
        collegeId == sessionCollegeId(r)
    IN
    IF uploadChecks # Pass THEN uploadChecks
    ELSE IF titleChecks # Pass THEN titleChecks
    ELSE IF dateChecks # Pass THEN dateChecks
    ELSE IF ~Truthy(collegeId) THEN Lookup
    ELSE createServiceCall(r, up.file, collegeId)

\* from the profile lookup's result to the next await
createMemoryAfterLookup(r, e, found) ==
    LET collegeId == IF found.data = Null THEN Null
                     ELSE Or(found.data.college_id, Null)
    IN
    IF ~Truthy(collegeId)
    THEN Respond(errorResponse("College ID not found. Please update your profile.", 400))
    ELSE createServiceCall(r, uploadMiddleware(r.photo, e.maxImageSize).file, collegeId)

\* catch (error) of createMemory
createMemoryCatch(error) ==
    Respond(errorResponse(Or(error.message, Str("Failed to create memory")).v, 500))

\* resumption after memoryWallService.createMemory settled
createMemoryAfterService(o) ==
    IF o.kind = "throw" THEN createMemoryCatch(o.error)
    ELSE Respond(successResponse(o.data, "Memory created successfully", 201))

(***************************************************************************)
(* getAllMemories                                                          *)
(***************************************************************************)
\* filters: only the query parameters that are set
buildFilters(query) ==
    [k \in {q \in {"search", "startDate", "endDate"} : Truthy(query[q])} |-> query[k]]

getAllMemoriesStart(r) ==
    LET collegeId == sessionCollegeId(r) IN
    Call([fn |-> "getStudentMemories",
          userId |-> r.user.user_id,
          collegeId |-> collegeId,
          filters |-> buildFilters(r.query)])

getAllMemoriesCatch(error) ==
    Respond(errorResponse(Or(error.message, Str("Failed to fetch memories")).v, 500))

getAllMemoriesAfterService(o) ==
    IF o.kind = "throw" THEN getAllMemoriesCatch(o.error)
    ELSE Respond(successResponse(o.data, "Memories retrieved successfully", 200))

(***************************************************************************)
(* getMemoryById                                                           *)
(***************************************************************************)
getMemoryByIdStart(r) ==
    LET collegeId == sessionCollegeId(r) IN
    Call([fn |-> "getMemoryById",
          id |-> r.params.id,
          userId |-> r.user.user_id,
          collegeId |-> collegeId])

getMemoryByIdCatch(error) ==
    IF error.message = Str("Memory not found")
    THEN Respond(notFoundResponse(error.message.v))
    ELSE Respond(errorResponse(Or(error.message, Str("Failed to fetch memory")).v, 500))

getMemoryByIdAfterService(o) ==
    IF o.kind = "throw" THEN getMemoryByIdCatch(o.error)
    ELSE IF ~Truthy(o.data)
    THEN Respond(notFoundResponse("Memory not found"))
    ELSE Respond(successResponse(o.data, "Memory retrieved successfully", 200))

(***************************************************************************)
(* updateMemory                                                            *)
(***************************************************************************)
\* the updates object: the body fields that are not undefined
buildUpdates(body) ==
    [k \in {f \in {"title", "date", "description"} : body[f] # Undefined} |-> body[k]]

\* the try block up to the await
updateMemoryStart(r, e) ==
    LET title == r.body.title
        date == r.body.date
        collegeId == sessionCollegeId(r)
        memoryDate == NewDate(date, e.tzOffset)
        today == EndOfToday(r.now, e.tzOffset)
        updates == buildUpdates(r.body)
    IN
    IF title # Undefined /\ title.t # "string"
    THEN Throw(TrimTypeError(title))
    ELSE IF title # Undefined /\ Trim(title.v) = ""
    THEN Respond(errorResponse("Title cannot be empty", 400))
    ELSE IF title # Undefined /\ Len(Trim(title.v)) > MaxTitleLength
    THEN Respond(errorResponse("Title must not exceed 200 characters", 400))
    ELSE IF date # Undefined /\ memoryDate.nan
    THEN Respond(errorResponse("Invalid date format", 400))
    ELSE IF date # Undefined /\ DateGreater(memoryDate, today)
    THEN Respond(errorResponse("Memory date cannot be in the future", 400))
    ELSE IF Cardinality(DOMAIN updates) = 0
    THEN Respond(errorResponse("No valid fields to update", 400))
    ELSE Call([fn |-> "updateMemory",
               id |-> r.params.id,
               userId |-> r.user.user_id,
               collegeId |-> collegeId,
               updates |-> updates])

\* a catch block that throws in turn: the handler's promise rejects, nothing is sent
Reject == [kind |-> "reject"]

updateMemoryCatchBadRequest(error) ==
    IF error.message.t # "string"
    THEN Reject
    ELSE IF Includes(error.message.v, "not found") \/ Includes(error.message.v, "permission")
    THEN Respond(notFoundResponse(error.message.v))
    ELSE Respond(errorResponse(Or(error.message, Str("Failed to update memory")).v, 400))

\* catch (error) of updateMemory
updateMemoryCatch(error) ==
    IF error.message.t # "string"
    THEN Reject
    ELSE IF Includes(error.message.v, "not found") \/ Includes(error.message.v, "permission")
    THEN Respond(notFoundResponse(error.message.v))
    ELSE Respond(errorResponse(Or(error.message, Str("Failed to update memory")).v, 500))

updateMemoryAfterService(o) ==
    IF o.kind = "throw" THEN updateMemoryCatch(o.error)
    ELSE Respond(successResponse(o.data, "Memory updated successfully", 200))

(***************************************************************************)
(* deleteMemory                                                            *)
(***************************************************************************)
deleteMemoryStart(r) ==
    LET collegeId == sessionCollegeId(r) IN
    Call([fn |-> "deleteMemory",
          id |-> r.params.id,
          userId |-> r.user.user_id,
          collegeId |-> collegeId])

\* catch (error) of deleteMemory
deleteMemoryCatch(error) ==
    IF error.message.t # "string"
    THEN Reject
    ELSE IF Includes(error.message.v, "not found") \/ Includes(error.message.v, "permission")
    THEN Respond(notFoundResponse(error.message.v))
    ELSE Respond(errorResponse(Or(error.message, Str("Failed to delete memory")).v, 500))

deleteMemoryAfterService(o) ==
    IF o.kind = "throw" THEN deleteMemoryCatch(o.error)
    ELSE Respond(successResponse(o.data, "Memory deleted successfully", 200))

(***************************************************************************)
(* getMemoryStats                                                          *)
(***************************************************************************)
getMemoryStatsStart(r) ==
    LET collegeId == sessionCollegeId(r) IN
    Call([fn |-> "getMemoryStats",
          userId |-> r.user.user_id,
          collegeId |-> collegeId])

getMemoryStatsCatch(error) ==
    Respond(errorResponse(Or(error.message, Str("Failed to fetch memory statistics")).v, 500))

getMemoryStatsAfterService(o) ==
    IF o.kind = "throw" THEN getMemoryStatsCatch(o.error)
    ELSE Respond(successResponse(o.data, "Memory statistics retrieved successfully", 200))

(***************************************************************************)
(* Inputs.                                                                 *)
(***************************************************************************)
TitleOver == 1          \* titles run up to MaxTitleLength + TitleOver characters
MaxDayOfMonth == 5      \* date-only inputs run from 1970-01-02 to this day

DigitChar(d) ==
    CASE d = 0 -> "0" [] d = 1 -> "1" [] d = 2 -> "2" [] d = 3 -> "3" [] d = 4 -> "4"
      [] d = 5 -> "5" [] d = 6 -> "6" [] d = 7 -> "7" [] d = 8 -> "8" [] d = 9 -> "9"

Titles ==
    {Undefined, Num(7), Str(""), Str("  "), Str(" Field Trip "),
     Str(" " \o Repeat("a", MaxTitleLength) \o " ")}
    \cup {Str(Repeat("a", MaxTitleLength + n)) : n \in 1..TitleOver}

Dates ==
    {Undefined, Str(""), Str("not-a-date"), Str("1970-01-03T23:30")}
    \cup {Str("1970-01-0" \o DigitChar(d)) : d \in 2..MaxDayOfMonth}

\* the server clock when the handler reads it: 1970-01-03 at 01:00, 12:00 and 22:00 UTC
Nows == {2 * DayMs + h * HourMs : h \in {1, 12, 22}}

TzOffsets == {0 - 5 * HourMs, 0, 5 * HourMs + 30 * MinuteMs}

MaxImageSizes == {Undefined, Str("5242880")}

Photos ==
    {None,
     [field |-> "image", originalname |-> "trip.png", size |-> 2097152],
     [field |-> "photo", originalname |-> "notes.pdf", size |-> 2097152]}
    \cup {[field |-> "photo", originalname |-> "Trip.JPG", size |-> n] :
            n \in {2097152, 6291456, DefaultMaxImageSize, DefaultMaxImageSize + 1}}

Users == {[user_id |-> "u1", college_id |-> c] : c \in {Undefined, Str("col-S")}}
Tenants == {Undefined, Str("col-T")}

Requests ==
    {[op |-> "createMemory", user |-> u, tenant |-> t, now |-> n, photo |-> p,
      body |-> [title |-> ti, date |-> d, description |-> de]] :
        u \in Users, t \in Tenants, n \in Nows, p \in Photos,
        ti \in Titles, d \in Dates, de \in {Undefined, Str(" a day out ")}}
    \cup
    {[op |-> "updateMemory", user |-> u, tenant |-> t, now |-> n, params |-> [id |-> "m1"],
      body |-> [title |-> ti, date |-> d, description |-> de]] :
        u \in Users, t \in Tenants, n \in Nows,
        ti \in Titles \cup {Null}, d \in Dates \cup {Null}, de \in {Undefined, Str("")}}
    \cup
    {[op |-> "getAllMemories", user |-> u, tenant |-> t,
      query |-> [search |-> s, startDate |-> sd, endDate |-> ed]] :
        u \in Users, t \in Tenants, s \in {Undefined, Str("trip")},
        sd \in {Undefined, Str("1970-01-01")}, ed \in {Undefined, Str("")}}
    \cup
    {[op |-> o, user |-> u, tenant |-> t, params |-> [id |-> "m1"]] :
        o \in {"getMemoryById", "deleteMemory"}, u \in Users, t \in Tenants}
    \cup
    {[op |-> "getMemoryStats", user |-> u, tenant |-> t] : u \in Users, t \in Tenants}

(***************************************************************************)
(* The environment: the profiles table and memoryWallService.              *)
(***************************************************************************)
NotFoundCauses == {"absent", "notOwned"}

NotFoundMessages ==
    {Str("Memory not found"), Str("You do not have permission to access this memory")}

ErrorDetails ==
    {Str("connection refused"), Str("Bucket not found"), Str(""), Undefined}

MemoryRow == [t |-> "object", id |-> "m1"]

\* supabase.from('profiles').select('college_id').eq('id', user_id).single()
ProfileResults ==
    {[kind |-> "return", data |-> [college_id |-> Str("col-P")], error |-> Null],
     [kind |-> "return", data |-> [college_id |-> Null], error |-> Null],
     [kind |-> "return", data |-> Null, error |-> Str("PGRST116")],
     [kind |-> "throw", error |-> [message |-> Str("fetch failed")]]}

\* how a call of memoryWallService settles, with the reason behind a failure
ServiceOutcomes(fn) ==
    {[kind |-> "return", cause |-> "none", data |-> MemoryRow]}
    \cup {[kind |-> "return", cause |-> c, data |-> Null] :
            c \in IF fn = "getMemoryById" THEN NotFoundCauses ELSE {"none"}}
    \cup {[kind |-> "throw", cause |-> c, error |-> [message |-> m]] :
            c \in IF fn \in {"getMemoryById", "updateMemory", "deleteMemory"}
                  THEN NotFoundCauses ELSE {},
            m \in NotFoundMessages}
    \cup {[kind |-> "throw", cause |-> "unexpected", error |-> [message |-> m]] :
            m \in ErrorDetails}

(***************************************************************************)
(* Steps.                                                                  *)
(***************************************************************************)
\* the handler moves on according to what its code stretch ended in
Proceed(result) ==
    /\ pc' = CASE result.kind = "respond" -> "returned"
               [] result.kind = "reject" -> "rejected"
               [] result.kind = "lookup" -> "awaitProfile"
               [] result.kind = "call" -> "awaitService"
    /\ sent' = IF result.kind = "respond" THEN Append(sent, result.res) ELSE sent
    /\ lookups' = IF result.kind = "lookup" THEN lookups + 1 ELSE lookups
    /\ calls' = IF result.kind = "call" THEN Append(calls, result.call) ELSE calls

\* try { ... } catch (error) { ... }
Try(result, catch(_)) == IF result.kind = "throw" THEN catch(result.error) ELSE result

CreateMemoryStart ==
    /\ pc = "start" /\ req.op = "createMemory"
    /\ Proceed(Try(createMemoryStart(req, env), createMemoryCatch))
    /\ UNCHANGED <<env, req, profile, outcome, prev>>

CreateMemoryProfile ==
    /\ pc = "awaitProfile"
    /\ \E p \in ProfileResults :
         /\ profile' = p
         /\ Proceed(IF p.kind = "throw" THEN createMemoryCatch(p.error)
                    ELSE Try(createMemoryAfterLookup(req, env, p), createMemoryCatch))
    /\ UNCHANGED <<env, req, outcome, prev>>

CreateMemoryService ==
    /\ pc = "awaitService" /\ req.op = "createMemory"
    /\ \E o \in ServiceOutcomes("createMemory") :
         /\ outcome' = o
         /\ Proceed(createMemoryAfterService(o))
    /\ UNCHANGED <<env, req, profile, prev>>

GetAllMemoriesStart ==
    /\ pc = "start" /\ req.op = "getAllMemories"
    /\ Proceed(Try(getAllMemoriesStart(req), getAllMemoriesCatch))
    /\ UNCHANGED <<env, req, profile, outcome, prev>>

GetAllMemoriesService ==
    /\ pc = "awaitService" /\ req.op = "getAllMemories"
    /\ \E o \in ServiceOutcomes("getStudentMemories") :
         /\ outcome' = o
         /\ Proceed(getAllMemoriesAfterService(o))
    /\ UNCHANGED <<env, req, profile, prev>>

GetMemoryByIdStart ==
    /\ pc = "start" /\ req.op = "getMemoryById"
    /\ Proceed(Try(getMemoryByIdStart(req), getMemoryByIdCatch))
    /\ UNCHANGED <<env, req, profile, outcome, prev>>

GetMemoryByIdService ==
    /\ pc = "awaitService" /\ req.op = "getMemoryById"
    /\ \E o \in ServiceOutcomes("getMemoryById") :
         /\ outcome' = o
         /\ Proceed(getMemoryByIdAfterService(o))
    /\ UNCHANGED <<env, req, profile, prev>>

UpdateMemoryStart ==
    /\ pc = "start" /\ req.op = "updateMemory"
    /\ Proceed(Try(updateMemoryStart(req, env), updateMemoryCatch))
    /\ UNCHANGED <<env, req, profile, outcome, prev>>

UpdateMemoryService ==
    /\ pc = "awaitService" /\ req.op = "updateMemory"
    /\ \E o \in ServiceOutcomes("updateMemory") :
         /\ outcome' = o
         /\ Proceed(updateMemoryAfterService(o))
    /\ UNCHANGED <<env, req, profile, prev>>

DeleteMemoryStart ==
    /\ pc = "start" /\ req.op = "deleteMemory"
    /\ Proceed(Try(deleteMemoryStart(req), deleteMemoryCatch))
    /\ UNCHANGED <<env, req, profile, outcome, prev>>

DeleteMemoryService ==
    /\ pc = "awaitService" /\ req.op = "deleteMemory"
    /\ \E o \in ServiceOutcomes("deleteMemory") :
         /\ outcome' = o
         /\ Proceed(deleteMemoryAfterService(o))
    /\ UNCHANGED <<env, req, profile, prev>>

GetMemoryStatsStart ==
    /\ pc = "start" /\ req.op = "getMemoryStats"
    /\ Proceed(Try(getMemoryStatsStart(req), getMemoryStatsCatch))
    /\ UNCHANGED <<env, req, profile, outcome, prev>>

GetMemoryStatsService ==
    /\ pc = "awaitService" /\ req.op = "getMemoryStats"
    /\ \E o \in ServiceOutcomes("getMemoryStats") :
         /\ outcome' = o
         /\ Proceed(getMemoryStatsAfterService(o))
    /\ UNCHANGED <<env, req, profile, prev>>

\* The client sends the request again once the handler is through (handlers
\* share no state, so any other next request starts as in Init).  What the
\* finished request ran into in the service is kept for comparison.
NextRequest ==
    /\ pc \in {"returned", "rejected"}
    /\ prev' = IF outcome # None /\ outcome.cause # "none"
               THEN [op |-> req.op, cause |-> outcome.cause, sent |-> sent]
               ELSE None
    /\ pc' = "start"
    /\ sent' = <<>>
    /\ calls' = <<>>
    /\ lookups' = 0
    /\ profile' = None
    /\ outcome' = None
    /\ UNCHANGED <<env, req>>

Init ==
    /\ env \in {[maxImageSize |-> m, tzOffset |-> z] : m \in MaxImageSizes, z \in TzOffsets}
    /\ req \in Requests
    /\ pc = "start"
    /\ sent = <<>>
    /\ calls = <<>>
    /\ lookups = 0
    /\ profile = None
    /\ outcome = None
    /\ prev = None

Next ==
    \/ CreateMemoryStart
    \/ CreateMemoryProfile
    \/ CreateMemoryService
    \/ GetAllMemoriesStart
    \/ GetAllMemoriesService
    \/ GetMemoryByIdStart
    \/ GetMemoryByIdService
    \/ UpdateMemoryStart
    \/ UpdateMemoryService
    \/ DeleteMemoryStart
    \/ DeleteMemoryService
    \/ GetMemoryStatsStart
    \/ GetMemoryStatsService
    \/ NextRequest

Spec == Init /\ [][Next]_vars

(***************************************************************************)
(* Properties.                                                             *)
(***************************************************************************)
Finished == pc \in {"returned", "rejected"}

\* the handler answered once, with this status
Answered(status) == Len(sent) = 1 /\ sent[1].status = status

\* the handler answered once, with this status and message
AnsweredWith(status, message) ==
    Answered(status) /\ sent[1].body = [success |-> FALSE, message |-> message]

IsCreate == req.op = "createMemory"
IsUpdate == req.op = "updateMemory"

\* the request as the checks of createMemory / updateMemory see it
Upload == uploadMiddleware(req.photo, env.maxImageSize)
UploadFails == Upload.err # None
PhotoMissing == Upload.file = None
TitleBlank == ~Truthy(req.body.title) \/ (req.body.title.t = "string" /\ Trim(req.body.title.v) = "")
TitleNotText == Truthy(req.body.title) /\ req.body.title.t # "string"
TitleTooLong == req.body.title.t = "string" /\ Len(Trim(req.body.title.v)) > MaxTitleLength
DateMissing == ~Truthy(req.body.date)
DateInstant == NewDate(req.body.date, env.tzOffset)
DateUnparseable == DateInstant.nan

\* 00:00:00.000 and 23:59:59.999 of the server's current local day, as instants
LocalMidnight == req.now - ((req.now + env.tzOffset) % DayMs)
LocalEndOfDay == LocalMidnight + DayMs - 1
DateAfterToday == ~DateUnparseable /\ DateInstant.ms > LocalEndOfDay
DateAfterNow == ~DateUnparseable /\ DateInstant.ms > req.now

\* the date-only text of the server's local today, which parses to UTC midnight
DateIsToday ==
    /\ req.body.date.t = "string" /\ Len(req.body.date.v) = 10 /\ ~DateUnparseable
    /\ DateInstant.ms = ((req.now + env.tzOffset) \div DayMs) * DayMs

\* the handler got as far as comparing the date with the clock
DateCompared ==
    /\ pc # "start"
    /\ \/ IsCreate /\ ~UploadFails /\ ~PhotoMissing /\ ~TitleBlank /\ ~TitleNotText
                   /\ ~TitleTooLong /\ ~DateMissing /\ ~DateUnparseable
       \/ IsUpdate /\ (req.body.title = Undefined \/ (~TitleBlank /\ ~TitleNotText /\ ~TitleTooLong))
                   /\ req.body.date # Undefined /\ ~DateUnparseable

FutureDateRejected == AnsweredWith(400, "Memory date cannot be in the future")

\* C1: fail fast -- a createMemory or updateMemory request that was answered
\* 400 has made no call to memoryWallService.
C1_FailFast ==
    (IsCreate \/ IsUpdate) /\ (\E i \in 1..Len(sent) : sent[i].status = 400)
        => calls = <<>>

C1_Witness ==
    /\ IsUpdate /\ pc = "returned"
    /\ AnsweredWith(400, "Title must not exceed 200 characters")
    /\ calls = <<>>

\* the tenant ids createMemory can draw on
ProfileCollegeId ==
    IF profile # None /\ profile.kind = "return" /\ profile.data # Null
    THEN profile.data.college_id ELSE Null

\* C2: createMemory passes the first non-empty of session college_id, request
\* tenant and profile college_id to the service; the profile is looked up at
\* most once and only when the first two are empty; with all three empty the
\* answer is 400 and nothing is persisted.
C2_TenantPrecedence ==
    IsCreate =>
      /\ lookups \in {0, 1}
      /\ lookups = 1 => ~Truthy(req.user.college_id) /\ ~Truthy(req.tenant)
      /\ \A i \in 1..Len(calls) :
           /\ Truthy(calls[i].collegeId)
           /\ calls[i].collegeId =
                IF Truthy(req.user.college_id) THEN req.user.college_id
                ELSE IF Truthy(req.tenant) THEN req.tenant
                ELSE ProfileCollegeId
      /\ (/\ profile # None /\ profile.kind = "return"
          /\ ~Truthy(req.user.college_id) /\ ~Truthy(req.tenant) /\ ~Truthy(ProfileCollegeId))
           => /\ AnsweredWith(400, "College ID not found. Please update your profile.")
              /\ calls = <<>>

C2_Witness ==
    /\ IsCreate /\ lookups = 1 /\ Len(calls) = 1
    /\ calls[1].collegeId = Str("col-P")

C2_WitnessSession ==
    /\ IsCreate /\ lookups = 0 /\ Len(calls) = 1
    /\ req.tenant = Str("col-T") /\ calls[1].collegeId = Str("col-S")

\* C3: memoryWallService is only ever called with a non-empty tenant id.
C3_TenantNonEmpty ==
    \A i \in 1..Len(calls) : Truthy(calls[i].collegeId)

\* C4: getById, update and delete answer a record that is absent or owned by
\* someone else with 404, and with the same response for both causes whatever
\* message the service reports.
C4_NotFoundUniform ==
    (/\ req.op \in {"getMemoryById", "updateMemory", "deleteMemory"}
     /\ Finished /\ outcome # None /\ outcome.cause \in NotFoundCauses)
      => /\ Answered(404)
         /\ (prev # None /\ prev.cause \in NotFoundCauses) => prev.sent = sent

\* C5: an unexpected service failure is answered 500 with a message that does
\* not depend on the failure: the error's own message is not sent, and the
\* same request failing with another error detail gets the same response.
C5_GenericFailure ==
    (Finished /\ outcome # None /\ outcome.cause = "unexpected")
      => /\ Answered(500)
         /\ Truthy(outcome.error.message) => sent[1].body.message # outcome.error.message.v
         /\ (prev # None /\ prev.cause = "unexpected") => prev.sent = sent

\* C6: updateMemory answers 400 for every no-op or invalid body and 200 only
\* after the service update succeeded.
C6_UpdateRejectsBadInput ==
    (IsUpdate /\ Finished)
      => /\ (\A f \in {"title", "date", "description"} : req.body[f] = Undefined)
              => AnsweredWith(400, "No valid fields to update")
         /\ (req.body.title # Undefined /\ (TitleBlank \/ TitleNotText \/ TitleTooLong))
              => Answered(400)
         /\ (req.body.date # Undefined /\ (DateUnparseable \/ DateAfterToday))
              => Answered(400)
         /\ (\E i \in 1..Len(sent) : sent[i].status = 200)
              => outcome # None /\ outcome.kind = "return"

C7_WitnessRejected ==
    DateCompared /\ DateAfterToday /\ FutureDateRejected

C7_WitnessToday ==
    DateCompared /\ DateIsToday /\ DateAfterNow /\ pc = "awaitService"

\* what createMemory answers to a failed upload
UploadErrorMessage ==
    IF ~UploadFails THEN ""
    ELSE IF Upload.err.multer /\ Upload.err.code = "LIMIT_FILE_SIZE"
    THEN "Photo size exceeds the limit (10MB)"
    ELSE IF Upload.err.multer THEN "Photo upload error: " \o Upload.err.message
    ELSE Upload.err.message

\* the checks of createMemory that need no lookup, in the order claimed
CreateChecks ==
    << [fails |-> UploadFails, message |-> UploadErrorMessage],
       [fails |-> PhotoMissing, message |-> "Photo is required. Please choose a photo."],
       [fails |-> TitleBlank, message |-> "Title is required"],
       [fails |-> TitleTooLong, message |-> "Title must not exceed 200 characters"],
       [fails |-> DateMissing, message |-> "Date is required"],
       [fails |-> DateUnparseable, message |-> "Invalid date format"],
       [fails |-> DateAfterToday, message |-> "Memory date cannot be in the future"] >>

FirstFailing ==
    IF \E i \in 1..Len(CreateChecks) : CreateChecks[i].fails
    THEN CHOOSE i \in 1..Len(CreateChecks) :
           CreateChecks[i].fails /\ \A j \in 1..(i - 1) : ~CreateChecks[j].fails
    ELSE 0

\* the title is something other than text, so the title check itself throws
TitleCheckThrows == ~UploadFails /\ ~PhotoMissing /\ TitleNotText

\* C8: createMemory reports the first failing check in the order upload error,
\* photo, title blank, title length, date presence, date format, future date,
\* tenant id, and nothing else; the profile lookup happens only once the
\* photo, title and date checks have all passed.
C8_CheckOrder ==
    (IsCreate /\ pc # "start") =>
      /\ lookups > 0 => FirstFailing = 0 /\ ~TitleCheckThrows
      /\ ~TitleCheckThrows =>
           IF FirstFailing # 0
           THEN /\ pc = "returned"
                /\ AnsweredWith(400, CreateChecks[FirstFailing].message)
                /\ lookups = 0 /\ calls = <<>>
           ELSE \A i \in 1..Len(sent) :
                  sent[i].status = 400 =>
                    /\ lookups = 1
                    /\ sent[i].body.message = "College ID not found. Please update your profile."

C8_Witness ==
    /\ IsCreate /\ pc = "returned"
    /\ ~UploadFails /\ ~PhotoMissing /\ TitleTooLong /\ DateMissing
    /\ AnsweredWith(400, "Title must not exceed 200 characters")

C8_WitnessDate ==
    /\ IsCreate /\ pc = "returned" /\ FirstFailing = 5
    /\ ~Truthy(req.user.college_id) /\ ~Truthy(req.tenant)
    /\ AnsweredWith(400, "Date is required") /\ lookups = 0

\* the size ceiling the configuration asks for
ConfiguredLimit ==
    IF env.maxImageSize = Undefined THEN DefaultMaxImageSize ELSE ParseInt(env.maxImageSize).v

RECURSIVE IndexOf(_, _, _)
IndexOf(s, c, i) ==
    IF i > Len(s) THEN 0 ELSE IF CharAt(s, i) = c THEN i ELSE IndexOf(s, c, i + 1)

\* the number of bytes a message names as "(<n>MB)", 0 when it names none
CitedLimit(message) ==
    LET open == IndexOf(message, "(", 1) IN
    IF open = 0 THEN 0
    ELSE LeadingDigits(SubSeq(message, open + 1, Len(message)), 0) * 1024 * 1024

\* C9: a photo larger than the ceiling in force (MAX_IMAGE_SIZE when set,
\* 10,485,760 otherwise) is answered 400 with a message that cites that same
\* ceiling, and nothing is persisted.
C9_LimitCited ==
    (/\ IsCreate /\ pc # "start"
     /\ req.photo # None /\ req.photo.field = "photo" /\ fileFilter(req.photo.originalname)
     /\ req.photo.size > ConfiguredLimit)
      => /\ Answered(400)
         /\ CitedLimit(sent[1].body.message) = ConfiguredLimit
         /\ calls = <<>>

\* C10: a handler that is through has sent exactly one response, with a status
\* in {200, 201, 400, 404, 500}, and a 200/201 only after the service call
\* returned; no handler ever sends two.
C10_OneResponse ==
    /\ Len(sent) <= 1
    /\ Finished =>
         /\ Len(sent) = 1
         /\ sent[1].status \in {200, 201, 400, 404, 500}
         /\ sent[1].status \in {200, 201} => outcome # None /\ outcome.kind = "return"

====
